---- MODULE Spec2Model ----
(***************************************************************************)
(* The KOOK gateway session of amiyabot (adapters/kook/__init__.py) as a   *)
(* state machine.  The session is a set of asyncio tasks sharing the       *)
(* fields of one KOOKBotInstance:                                          *)
(*   - the connect task (connect / __connect, the socket read loop),       *)
(*   - heartbeat_interval tasks, one per accepted hello frame,             *)
(*   - wait_heartbeat (watchdog) tasks, one per heartbeat sent,            *)
(*   - handler tasks, one per dispatch frame,                              *)
(*   - the caller of close().                                              *)
(* asyncio is cooperative: a task runs from one await to the next without  *)
(* interleaving, so every action below is the code between two awaits.     *)
(* Time is discrete, one Tick per second.  A task whose sleep has expired, *)
(* or that is ready to run, runs before the next Tick; how long a network  *)
(* operation takes (an HTTP request, a websocket connect, the arrival of a *)
(* frame, the completion of a websocket close) is chosen by the            *)
(* environment.                                                            *)
(*                                                                         *)
(* Three more parts of the program have their own next-state relation and  *)
(* specification over their own variables, all starting in Init:           *)
(*   - SpecRoles: the role cache of the adapter (record_role_list),        *)
(*   - SpecFactory: the handler registries (handler/__init__.py),          *)
(*   - SpecPackage: package_tencent_message (adapters/tencent/package.py). *)
(* SpecSenders is the session in an environment that repeats hello frames. *)
(***************************************************************************)
EXTENDS Integers, Sequences, FiniteSets, TLC

\* ------------------------------------------------------------------ bounds
\* websockets connected in one run
MaxSockets == 2
\* sequence numbers are 0..MaxSn
MaxSn == 1
\* heartbeat_interval tasks alive at a time
MaxHb == 1
\* seconds the closing handshake of a websocket lasts
MaxClosing == 1
\* handler tasks alive at a time
MaxHandlers == 1
\* heartbeat_interval tasks alive at a time when hello frames are repeated
MaxSenders == 2
\* guilds whose role list is cached
MaxGuilds == 2
\* record_role_list calls in flight at a time
MaxCalls == 2
\* the clock runs from 0 to MaxNow seconds
MaxNow == 11
\* different role lists a guild can have
MaxRoleSets == 2
\* BotHandlerFactory objects: the BotInstance and its plugins
MaxFactories == 2
\* event names, exception types, group ids
MaxKeys == 2
\* registrations (on_message, on_event, ...) over all factories
MaxRegs == 2
\* combine_factory calls
MaxCombines == 3
\* messages quoted one inside the other
MaxQuoteDepth == 2
\* attachments of one message
MaxAttachments == 1
\* different attachment urls
MaxUrls == 2

\* ------------------------------------------------------- program constants
HeartbeatInterval == 30
WatchdogWindow == 30
Backoff == 10
\* seconds for which a recorded role list is not fetched again
TTL == 10
\* self.connection = None
None == 0
\* WSPayload.sn = None
NoSn == -1

VARIABLES
    keep_run,       \* BotAdapterProtocol.keep_run
    ws_url,         \* KOOKBotInstance.ws_url: "" or the cached gateway url
    connection,     \* KOOKBotInstance.connection: None or a websocket (its id)
    pong,           \* KOOKBotInstance.pong
    last_sn,        \* KOOKBotInstance.last_sn
    payload,        \* __connect's local, while it is live across an await:
                    \* the frame whose processing waits at line 97
    main,           \* the connect task: pc, sleep timer t, its websocket ws,
                    \* the exception exc that ended its last connection
    hb,             \* heartbeat_interval tasks: pc, sec, sleep timer t, and
                    \* sock, the connection they were created for
    wd,             \* wait_heartbeat tasks: the same, and tgt, the websocket
                    \* whose close they await
    closer,         \* the caller of close(): pc and the websocket whose close it awaits
    handler_tasks,  \* payloads of the handler tasks still running, in spawn order
    sock,           \* state of every websocket: unborn, open, closing, closed
    nsock,          \* number of websockets connected so far
    resume,         \* history: sn of the resume request sent on this connection
    end_sn,         \* history: last_sn when the previous connection ended
    closing_t,      \* seconds for which a websocket has been closing
    beat,           \* history: age in seconds of the oldest heartbeat sent on
                    \* this connection with no ack read since, NoBeat if none
    cache_create_time,  \* RolePermissionCache.cache_create_time: guild -> time.time()
    guild_role,     \* RolePermissionCache.guild_role: guild -> its role list
    now,            \* time.time(), in seconds
    calls,          \* the record_role_list calls: pc, and the guild whose
                    \* role list they fetch
    factory,        \* the BotHandlerFactory objects (a BotInstance and its
                    \* PluginInstances): their fields
    lists,          \* the list objects held by event_handlers and
                    \* exception_handlers; the dicts hold references to them
    nreg,           \* functions and configs registered so far
    ncombine,       \* combine_factory calls so far
    targeted,       \* history: the factories that were the target of a
                    \* combine_factory call
    packaged        \* the last package_tencent_message call: its arguments,
                    \* what the platform answered, and its result

vars == <<keep_run, ws_url, connection, pong, last_sn, payload, main, hb, wd,
          closer, handler_tasks, sock, nsock, resume, end_sn, closing_t, beat>>
\* the role cache of the adapter (record_role_list)
role_vars == <<cache_create_time, guild_role, now, calls>>
\* the handler registries (handler/__init__.py)
factory_vars == <<factory, lists, nreg, ncombine, targeted>>
\* what the gateway session leaves alone
off_session == <<role_vars, factory_vars, packaged>>
\* what record_role_list leaves alone
off_roles == <<vars, factory_vars, packaged>>
\* what the registries leave alone
off_factory == <<vars, role_vars, packaged>>
\* what package_tencent_message leaves alone
off_package == <<vars, role_vars, factory_vars>>
all_vars == <<vars, off_session>>

SockIds == 1..MaxSockets
\* the task slots are the domains of hb and wd
HbIds == DOMAIN hb
WdIds == DOMAIN wd
NoBeat == 0 - 1
Guilds == 1..MaxGuilds
Calls == 1..MaxCalls
IdleCall == [pc |-> "idle", guild |-> None]
Factories == 1..MaxFactories
Keys == 1..MaxKeys
\* no package_tencent_message call yet
NotPackaged == [event |-> "", chain |-> <<>>, is_reference |-> FALSE,
                result |-> [kind |-> "", image |-> <<>>, calls |-> 0]]
\* BotHandlerFactory.__init__
NewFactory ==
    [prefix_keywords |-> <<>>, group_config |-> <<>>, event_handlers |-> <<>>,
     message_handlers |-> <<>>, exception_handlers |-> <<>>,
     after_reply_handlers |-> <<>>, before_reply_handlers |-> <<>>,
     message_handler_middleware |-> <<>>]

\* ------------------------------------------------------------------ frames
\* WSPayload as the read loop uses it: opcode s, sequence sn, and of d what
\* the loop reads: d['code'] of a hello (0 or a failure code, here 1) and
\* the event body of a dispatch frame (here one of two bodies, 0 and 1).
WSPayload(s, sn, d) == [s |-> s, sn |-> sn, d |-> d]
Frames ==
    {WSPayload(s, sn, d) : s \in {0, 1}, sn \in {NoSn} \cup (0..MaxSn), d \in {0, 1}}
    \cup {WSPayload(s, sn, 0) : s \in {3, 5, 6}, sn \in {NoSn} \cup (0..MaxSn)}
NoFrame == [s |-> NoSn, sn |-> NoSn, d |-> 0]

MinOf(S) == CHOOSE x \in S : \A y \in S : x <= y

IdleHb == [pc |-> "none", sec |-> 0, t |-> 0, sock |-> None]
IdleWd == [pc |-> "none", sec |-> 0, t |-> 0, sock |-> None, tgt |-> None]
FreeHb == {i \in HbIds : hb[i].pc = "none"}
FreeWd == {j \in WdIds : wd[j].pc = "none"}

\* a still-alive test that forgets the connection
StillAlive_KeepRunOnly(kr, conn) == kr

\* __still_alive: keep_run and connection (a websocket object is truthy,
\* open or not; only None is falsy)
StillAlive(kr, conn) == kr /\ conn # None

\* websocket.close() is called on c: the closing handshake of an open
\* websocket starts; nothing on one that is closing or closed
CallClose(sk, c) == IF c # None /\ sk[c] = "open" THEN [sk EXCEPT ![c] = "closing"] ELSE sk

\* a send on self.connection: None has no send (AttributeError), and a
\* websocket that is closing or closed raises ConnectionClosed
CanSend == connection # None /\ sock[connection] = "open"

\* the state after construction, with n slots for heartbeat_interval tasks
Constructed(n) ==
    /\ keep_run = TRUE
    /\ ws_url = ""
    /\ connection = None
    /\ pong = 0
    /\ last_sn = 0
    /\ payload = NoFrame
    /\ main = [pc |-> "me", t |-> 0, ws |-> None, exc |-> "none"]
    /\ hb = [i \in 1..n |-> IdleHb]
    /\ wd = [j \in 1..(2 * n) |-> IdleWd]
    /\ closer = [pc |-> "idle", tgt |-> None]
    /\ handler_tasks = <<>>
    /\ sock = [s \in SockIds |-> "unborn"]
    /\ nsock = 0
    /\ resume = NoSn
    /\ end_sn = 0
    /\ beat = NoBeat
    /\ closing_t = 0
    /\ cache_create_time = <<>>
    /\ guild_role = <<>>
    /\ now = 0
    /\ calls = [c \in Calls |-> IdleCall]
    /\ factory = [f \in Factories |-> NewFactory]
    /\ lists = <<>>
    /\ nreg = 0
    /\ ncombine = 0
    /\ targeted = {}
    /\ packaged = NotPackaged

Init == Constructed(MaxHb)

\* ------------------------------------------------------- the connect task
\* get_websocket_connection is an async context manager that BotAdapterProtocol
\* (adapters/__init__.py) does not define.  By the design of the session it
\* closes the websocket when the block is left, and an exception raised
\* inside the block (a connection error, a ManualCloseException, an
\* undecodable frame) ends the connection attempt and not the connect loop.
WsSuppresses == TRUE

\* a loop head that connects to whatever url is cached, be it empty
LoopHead_NoRefetch(kr, url) ==
    IF ~kr THEN [pc |-> "done", t |-> 0, ws |-> None, exc |-> "none"]
    ELSE [pc |-> "opening", t |-> 0, ws |-> None, exc |-> "none"]

\* line 44: while self.keep_run, then line 50: if not self.ws_url
LoopHead(kr, url) ==
    IF ~kr THEN [pc |-> "done", t |-> 0, ws |-> None, exc |-> "none"]
    ELSE IF url = "" THEN [pc |-> "gateway", t |-> 0, ws |-> None, exc |-> "none"]
    ELSE [pc |-> "opening", t |-> 0, ws |-> None, exc |-> "none"]

\* the with block is left (normally or by an exception): the websocket is
\* closed and the task waits for the close to complete
LeaveWith(exc) == [pc |-> "exit", t |-> 0, ws |-> main.ws, exc |-> exc]

\* the end of __connect after the with block: the finally clause (lines
\* 105-106) and, back in connect, line 46
AfterWith(exc) ==
    IF exc # "none" /\ ~WsSuppresses
    THEN [pc |-> "raised", t |-> 0, ws |-> None, exc |-> exc]
    ELSE [pc |-> "sleep", t |-> Backoff, ws |-> None, exc |-> exc]

\* line 39: await self.get_request('/user/me'); r = "raise": __check_response
\* raises ResponseException (lines 218-224), and connect() ends before its loop
MeDone(r) ==
    /\ main.pc = "me"
    /\ main' = IF r = "raise"
               THEN [pc |-> "failed", t |-> 0, ws |-> None, exc |-> "ResponseException"]
               ELSE LoopHead(keep_run, ws_url)
    /\ UNCHANGED <<keep_run, ws_url, connection, pong, last_sn, payload, hb, wd,
                   closer, handler_tasks, sock, nsock, resume, end_sn, beat, closing_t>>

\* lines 53-57: the gateway url is fetched.  r = "none": get_request returns
\* None and line 55 raises ManualCloseException; r = "raise": get_request
\* raises ResponseException.  Both are raised outside the with block: the
\* finally clause runs and the exception leaves __connect and connect.
GatewayDone(r) ==
    /\ main.pc = "gateway"
    /\ IF r = "ok"
       THEN /\ ws_url' = "url"
            /\ main' = [main EXCEPT !.pc = "opening"]
            /\ UNCHANGED <<connection, sock>>
       ELSE /\ ws_url' = ws_url
            /\ sock' = CallClose(sock, connection)
            /\ connection' = None
            /\ main' = [pc |-> "raised", t |-> 0, ws |-> None,
                        exc |-> IF r = "none" THEN "ManualCloseException"
                                ELSE "ResponseException"]
    /\ UNCHANGED <<keep_run, pong, last_sn, payload, hb, wd, closer,
                   handler_tasks, nsock, resume, end_sn, beat, closing_t>>

\* lines 61-64: the websocket is connected, self.connection = websocket, and
\* the loop condition is tested for the first time
WsOpened ==
    /\ main.pc = "opening"
    /\ nsock < MaxSockets
    /\ LET ws == nsock + 1 IN
       /\ nsock' = ws
       /\ connection' = ws
       /\ IF StillAlive(keep_run, ws)
          THEN /\ sock' = [sock EXCEPT ![ws] = "open"]
               /\ main' = [pc |-> "recv", t |-> 0, ws |-> ws, exc |-> "none"]
          ELSE /\ sock' = [sock EXCEPT ![ws] = "closing"]
               /\ main' = [pc |-> "exit", t |-> 0, ws |-> ws, exc |-> "none"]
    /\ UNCHANGED <<keep_run, ws_url, pong, last_sn, payload, hb, wd, closer,
                   handler_tasks, resume, end_sn, beat, closing_t>>

\* line 61: the websocket cannot be connected
WsOpenFail ==
    /\ main.pc = "opening"
    /\ main' = AfterWith("Exception")
    /\ connection' = None
    /\ UNCHANGED <<keep_run, ws_url, pong, last_sn, payload, hb, wd, closer,
                   handler_tasks, sock, nsock, resume, end_sn, beat, closing_t>>

\* the websocket of the with block is closed: lines 105-106 run
\* (close_connection finds the socket closed and sets self.connection = None)
\* and connect sleeps
MainFinally ==
    /\ main.pc = "exit"
    /\ sock[main.ws] = "closed"
    /\ connection' = None
    /\ main' = AfterWith(main.exc)
    /\ payload' = NoFrame
    /\ resume' = NoSn
    /\ end_sn' = last_sn
    /\ beat' = NoBeat
    /\ UNCHANGED <<keep_run, ws_url, pong, last_sn, hb, wd, closer,
                   handler_tasks, sock, nsock, closing_t>>

\* line 46 is over; line 44
MainSleepDone ==
    /\ main.pc = "sleep"
    /\ main.t = 0
    /\ main' = LoopHead(keep_run, ws_url)
    /\ UNCHANGED <<keep_run, ws_url, connection, pong, last_sn, payload, hb, wd,
                   closer, handler_tasks, sock, nsock, resume, end_sn, beat, closing_t>>

\* line 67: recv() raises ConnectionClosed
MainRecvClosed ==
    /\ main.pc = "recv"
    /\ sock[main.ws] = "closed"
    /\ main' = LeaveWith("Exception")
    /\ UNCHANGED <<keep_run, ws_url, connection, pong, last_sn, payload, hb, wd,
                   closer, handler_tasks, sock, nsock, resume, end_sn, beat, closing_t>>

\* line 68: the frame read cannot be decoded (json.loads or WSPayload(**...)
\* raises)
MainRecvBad ==
    /\ main.pc = "recv"
    /\ sock[main.ws] \in {"open", "closing"}
    /\ main' = LeaveWith("Exception")
    /\ sock' = CallClose(sock, main.ws)
    /\ UNCHANGED <<keep_run, ws_url, connection, pong, last_sn, payload, hb, wd,
                   closer, handler_tasks, nsock, resume, end_sn, beat, closing_t>>

\* --------------------------------------------------------- the read loop
\* a store that only lets the sequence grow
SnRead_Monotonic(f, cur) == IF f.sn # NoSn /\ f.sn > cur THEN f.sn ELSE cur

\* lines 70-71: if payload.sn is not None: self.last_sn = payload.sn
SnRead(f, cur) == IF f.sn # NoSn THEN f.sn ELSE cur
\* lines 102-103: if payload.sn: self.last_sn = payload.sn
SnAgain(f, cur) == IF f.sn # NoSn /\ f.sn # 0 THEN f.sn ELSE cur
\* lines 76-77: a hello whose code is not 0, and one whose code is 0
Rejected(f) == f.s = 1 /\ f.d # 0
Accepted(f) == f.s = 1 /\ f.d = 0
\* a resume request sent whatever the stored sequence
WantResume_Always(f, sn) == Accepted(f)
\* lines 76, 84: a hello whose code is 0, and if self.last_sn
WantResume(f, sn) == Accepted(f) /\ sn # 0
\* a handler awaited in the read loop: no task is created
SpawnHandler_Inline(tasks, f) == tasks
\* lines 73-74: asyncio.create_task(handler('event', payload.d))
SpawnHandler(tasks, f) == IF f.s = 0 THEN Append(tasks, f.d) ELSE tasks
\* line 89: asyncio.create_task(self.heartbeat_interval())
SpawnHb(tasks, conn) ==
    [tasks EXCEPT ![MinOf({i \in HbIds : tasks[i].pc = "none"})] =
        [pc |-> "start", sec |-> 0, t |-> 0, sock |-> conn]]

\* lines 67-103: one frame is read and processed, up to the next await that
\* waits (line 97) or to the loop condition of line 64
MainRecv(f) ==
    /\ main.pc = "recv"
    /\ sock[main.ws] \in {"open", "closing"}
    /\ (f.s = 0 => Len(handler_tasks) < MaxHandlers)
    /\ (Accepted(f) => FreeHb # {})
    /\ LET sn1 == SnRead(f, last_sn)
           wantResume == WantResume(f, sn1)
           raised == Rejected(f) \/ (wantResume /\ ~CanSend)       \* lines 80, 86
           exc == IF Rejected(f) THEN "ManualCloseException" ELSE "Exception"
           sn2 == IF Rejected(f) \/ f.s = 5 THEN 0 ELSE sn1         \* lines 79, 96
           awaits == f.s = 5 /\ connection # None                  \* lines 97, 129
           conn2 == IF f.s = 5 /\ ~awaits THEN None ELSE connection \* line 131
           sn3 == IF raised \/ awaits THEN sn2 ELSE SnAgain(f, sn2)
           leaves == raised \/ (~awaits /\ ~StillAlive(keep_run, conn2))
       IN
       /\ payload' = IF awaits THEN f ELSE NoFrame
       /\ last_sn' = sn3
       /\ ws_url' = IF Rejected(f) \/ f.s = 5 THEN "" ELSE ws_url   \* lines 78, 95
       /\ handler_tasks' = SpawnHandler(handler_tasks, f)
       /\ resume' = IF wantResume /\ CanSend THEN sn1 ELSE resume   \* line 86
       /\ hb' = IF Accepted(f) /\ ~raised THEN SpawnHb(hb, connection) ELSE hb
       /\ pong' = IF f.s = 3 THEN 1 ELSE pong                       \* lines 91-92
       /\ beat' = IF f.s = 3 THEN NoBeat ELSE beat
       /\ connection' = conn2
       /\ sock' = IF awaits THEN CallClose(sock, connection)
                  ELSE IF leaves THEN CallClose(sock, main.ws) ELSE sock
       /\ main' = IF awaits THEN [main EXCEPT !.pc = "close5"]
                  ELSE IF raised THEN LeaveWith(exc)
                  ELSE IF leaves THEN LeaveWith("none")
                  ELSE main
    /\ UNCHANGED <<keep_run, wd, closer, nsock, end_sn, closing_t>>

\* the close awaited at line 97 (close_connection, line 130) is complete:
\* line 131, lines 102-103, and the loop condition of line 64, which fails
MainClose5 ==
    /\ main.pc = "close5"
    /\ sock[main.ws] = "closed"
    /\ connection' = None
    /\ last_sn' = SnAgain(payload, last_sn)
    /\ main' = IF StillAlive(keep_run, None) THEN [main EXCEPT !.pc = "recv"]
               ELSE LeaveWith("none")
    /\ payload' = NoFrame
    /\ UNCHANGED <<keep_run, ws_url, pong, hb, wd, closer, handler_tasks,
                   sock, nsock, resume, end_sn, beat, closing_t>>

\* a handler task ends: it returns or it raises (asyncio logs the exception
\* of a task nobody awaits)
HandlerEnd(k, how) ==
    /\ k \in 1..Len(handler_tasks)
    /\ how \in {"return", "raise"}
    /\ handler_tasks' = [n \in 1..(Len(handler_tasks) - 1) |->
                            IF n < k THEN handler_tasks[n] ELSE handler_tasks[n + 1]]
    /\ UNCHANGED <<keep_run, ws_url, connection, pong, last_sn, payload, main, hb,
                   wd, closer, sock, nsock, resume, end_sn, beat, closing_t>>

\* ---------------------------------------------------- heartbeat_interval
\* the task created at line 89 runs for the first time: line 110
HbStart(i) ==
    /\ hb[i].pc = "start"
    /\ hb' = [hb EXCEPT ![i] = IF StillAlive(keep_run, connection)
                               THEN [@ EXCEPT !.pc = "sleep", !.t = 1]
                               ELSE IdleHb]
    /\ UNCHANGED <<keep_run, ws_url, connection, pong, last_sn, payload, main, wd,
                   closer, handler_tasks, sock, nsock, resume, end_sn, beat, closing_t>>

\* line 117: asyncio.create_task(self.wait_heartbeat())
SpawnWd(tasks, conn) ==
    [tasks EXCEPT ![MinOf({j \in WdIds : tasks[j].pc = "none"})] =
        [pc |-> "start", sec |-> 0, t |-> 0, sock |-> conn, tgt |-> None]]

\* the sleep of line 111 is over: lines 112-117, then line 110.  An exception
\* raised by the send of line 115 ends the task.
HbWake(i) ==
    /\ hb[i].pc = "sleep"
    /\ hb[i].t = 0
    /\ LET sec1 == hb[i].sec + 1
           fires == sec1 >= HeartbeatInterval
       IN
       /\ (fires /\ CanSend => FreeWd # {})
       /\ hb' = [hb EXCEPT ![i] =
                    IF fires /\ ~CanSend THEN IdleHb
                    ELSE IF ~StillAlive(keep_run, connection) THEN IdleHb
                    ELSE [@ EXCEPT !.sec = IF fires THEN 0 ELSE sec1, !.t = 1]]
       /\ wd' = IF fires /\ CanSend THEN SpawnWd(wd, connection) ELSE wd
       /\ beat' = IF fires /\ CanSend /\ beat = NoBeat THEN 0 ELSE beat
    /\ UNCHANGED <<keep_run, ws_url, connection, pong, last_sn, payload, main,
                   closer, handler_tasks, sock, nsock, resume, end_sn, closing_t>>

\* --------------------------------------------------------- wait_heartbeat
\* line 121: the loop goes on, or the task ends (line 126 is in the actions)
WdLoop(w, kr, conn) ==
    IF pong = 0 /\ StillAlive(kr, conn) THEN [w EXCEPT !.pc = "sleep", !.t = 1]
    ELSE IdleWd

\* the task created at line 117 runs for the first time
WdStart(j) ==
    /\ wd[j].pc = "start"
    /\ wd' = [wd EXCEPT ![j] = WdLoop(@, keep_run, connection)]
    /\ pong' = IF wd'[j].pc = "none" THEN 0 ELSE pong              \* line 126
    /\ UNCHANGED <<keep_run, ws_url, connection, last_sn, payload, main, hb,
                   closer, handler_tasks, sock, nsock, resume, end_sn, beat, closing_t>>

\* the sleep of line 122 is over: lines 123-125.  sec is kept at the window
\* once it has reached it: only sec >= 30 is ever read.
WdWake(j) ==
    /\ wd[j].pc = "sleep"
    /\ wd[j].t = 0
    /\ LET sec1 == IF wd[j].sec < WatchdogWindow THEN wd[j].sec + 1 ELSE wd[j].sec
           expired == sec1 >= WatchdogWindow
           awaits == expired /\ connection # None
       IN
       /\ wd' = [wd EXCEPT ![j] =
                    IF awaits THEN [@ EXCEPT !.pc = "closing", !.sec = sec1,
                                             !.tgt = connection]
                    ELSE WdLoop([@ EXCEPT !.sec = sec1], keep_run, connection)]
       /\ sock' = IF awaits THEN CallClose(sock, connection) ELSE sock
    /\ pong' = IF wd'[j].pc = "none" THEN 0 ELSE pong              \* line 126
    /\ UNCHANGED <<keep_run, ws_url, connection, last_sn, payload, main, hb,
                   closer, handler_tasks, nsock, resume, end_sn, beat, closing_t>>

\* the close awaited at line 125 (line 130) is complete: line 131, line 121
WdClosed(j) ==
    /\ wd[j].pc = "closing"
    /\ sock[wd[j].tgt] = "closed"
    /\ connection' = None
    /\ wd' = [wd EXCEPT ![j] = WdLoop([@ EXCEPT !.tgt = None], keep_run, None)]
    /\ pong' = IF wd'[j].pc = "none" THEN 0 ELSE pong              \* line 126
    /\ UNCHANGED <<keep_run, ws_url, last_sn, payload, main, hb, closer,
                   handler_tasks, sock, nsock, resume, end_sn, beat, closing_t>>

\* ------------------------------------------------------------------ close
\* lines 151-154, up to the await of line 130
Close ==
    /\ closer.pc = "idle"
    /\ keep_run' = FALSE
    /\ sock' = CallClose(sock, connection)
    /\ closer' = IF connection # None THEN [pc |-> "closing", tgt |-> connection]
                 ELSE [pc |-> "done", tgt |-> None]
    /\ UNCHANGED <<ws_url, connection, pong, last_sn, payload, main, hb, wd,
                   handler_tasks, nsock, resume, end_sn, beat, closing_t>>

\* the close awaited at line 130 is complete: line 131
CloseDone ==
    /\ closer.pc = "closing"
    /\ sock[closer.tgt] = "closed"
    /\ connection' = None
    /\ closer' = [pc |-> "done", tgt |-> None]
    /\ UNCHANGED <<keep_run, ws_url, pong, last_sn, payload, main, hb, wd,
                   handler_tasks, sock, nsock, resume, end_sn, beat, closing_t>>

\* ------------------------------------------------------------ environment
\* a websocket is closed: the close that was called completes, or the
\* network or the server ends the connection
SockClosed(s) ==
    /\ sock[s] \in {"open", "closing"}
    /\ sock' = [sock EXCEPT ![s] = "closed"]
    /\ closing_t' = IF \E c \in SockIds : sock'[c] = "closing" THEN closing_t ELSE 0
    /\ UNCHANGED <<keep_run, ws_url, connection, pong, last_sn, payload, main, hb,
                   wd, closer, handler_tasks, nsock, resume, end_sn, beat>>

\* some task can run now: an expired sleep, a task just created, an await
\* whose websocket is closed
Ready ==
    \/ main.pc = "sleep" /\ main.t = 0
    \/ main.pc \in {"recv", "exit", "close5"} /\ sock[main.ws] = "closed"
    \/ \E i \in HbIds : hb[i].pc = "start" \/ (hb[i].pc = "sleep" /\ hb[i].t = 0)
    \/ \E j \in WdIds : \/ wd[j].pc = "start"
                        \/ wd[j].pc = "sleep" /\ wd[j].t = 0
                        \/ wd[j].pc = "closing" /\ sock[wd[j].tgt] = "closed"
    \/ closer.pc = "closing" /\ sock[closer.tgt] = "closed"

\* one second passes
Tick ==
    /\ ~Ready
    /\ (\E c \in SockIds : sock[c] = "closing") => closing_t < MaxClosing
    /\ closing_t' = IF \E c \in SockIds : sock[c] = "closing" THEN closing_t + 1 ELSE 0
    /\ main' = IF main.pc = "sleep" THEN [main EXCEPT !.t = @ - 1] ELSE main
    /\ hb' = [i \in HbIds |-> IF hb[i].pc = "sleep" THEN [hb[i] EXCEPT !.t = @ - 1]
                              ELSE hb[i]]
    /\ wd' = [j \in WdIds |-> IF wd[j].pc = "sleep" THEN [wd[j] EXCEPT !.t = @ - 1]
                              ELSE wd[j]]
    /\ beat' = IF beat # NoBeat /\ beat <= WatchdogWindow THEN beat + 1 ELSE beat
    /\ UNCHANGED <<keep_run, ws_url, connection, pong, last_sn, payload, closer,
                   handler_tasks, sock, nsock, resume, end_sn>>

\* a frame arrives
Recv == \E f \in Frames : MainRecv(f)

Next ==
    \/ \E r \in {"ok", "none", "raise"} : MeDone(r) /\ UNCHANGED off_session
    \/ \E r \in {"ok", "none", "raise"} : GatewayDone(r) /\ UNCHANGED off_session
    \/ WsOpened /\ UNCHANGED off_session
    \/ WsOpenFail /\ UNCHANGED off_session
    \/ Recv /\ UNCHANGED off_session
    \/ MainRecvBad /\ UNCHANGED off_session
    \/ MainRecvClosed /\ UNCHANGED off_session
    \/ MainClose5 /\ UNCHANGED off_session
    \/ MainFinally /\ UNCHANGED off_session
    \/ MainSleepDone /\ UNCHANGED off_session
    \/ \E k \in 1..MaxHandlers, how \in {"return", "raise"} : HandlerEnd(k, how) /\ UNCHANGED off_session
    \/ \E i \in HbIds : HbStart(i) /\ UNCHANGED off_session
    \/ \E i \in HbIds : HbWake(i) /\ UNCHANGED off_session
    \/ \E j \in WdIds : WdStart(j) /\ UNCHANGED off_session
    \/ \E j \in WdIds : WdWake(j) /\ UNCHANGED off_session
    \/ \E j \in WdIds : WdClosed(j) /\ UNCHANGED off_session
    \/ Close /\ UNCHANGED off_session
    \/ CloseDone /\ UNCHANGED off_session
    \/ \E s \in SockIds : SockClosed(s) /\ UNCHANGED off_session
    \/ Tick /\ UNCHANGED off_session

Spec == Init /\ [][Next]_all_vars

\* ------------------------------------------------- repeated hello frames
\* The session with room for MaxSenders heartbeat_interval tasks, in an
\* environment that sends hello frames only and never calls close().
HelloFrames == {f \in Frames : f.s = 1}
RecvHello == \E f \in HelloFrames : MainRecv(f)

NextSenders ==
    \/ \E r \in {"ok", "none", "raise"} : MeDone(r) /\ UNCHANGED off_session
    \/ \E r \in {"ok", "none", "raise"} : GatewayDone(r) /\ UNCHANGED off_session
    \/ WsOpened /\ UNCHANGED off_session
    \/ WsOpenFail /\ UNCHANGED off_session
    \/ RecvHello /\ UNCHANGED off_session
    \/ MainRecvBad /\ UNCHANGED off_session
    \/ MainRecvClosed /\ UNCHANGED off_session
    \/ MainFinally /\ UNCHANGED off_session
    \/ MainSleepDone /\ UNCHANGED off_session
    \/ \E i \in HbIds : HbStart(i) /\ UNCHANGED off_session
    \/ \E i \in HbIds : HbWake(i) /\ UNCHANGED off_session
    \/ \E j \in WdIds : WdStart(j) /\ UNCHANGED off_session
    \/ \E j \in WdIds : WdWake(j) /\ UNCHANGED off_session
    \/ \E j \in WdIds : WdClosed(j) /\ UNCHANGED off_session
    \/ \E s \in SockIds : SockClosed(s) /\ UNCHANGED off_session
    \/ Tick /\ UNCHANGED off_session

SpecSenders == Constructed(MaxSenders) /\ [][NextSenders]_all_vars

\* ========================================================== the role cache
\* RolePermissionCache holds two dicts keyed by guild.  A dict is a function
\* whose domain is the set of its keys.
DictSet(d, k, v) == [x \in DOMAIN d \cup {k} |-> IF x = k THEN v ELSE d[x]]
DictDel(d, k) == [x \in DOMAIN d \ {k} |-> d[x]]

\* what http_requests.get hands to __check_response: None, a body that is not
\* json, the error envelope (a code that is not 0), or the role list
Responses ==
    {[kind |-> k, roles |-> None] : k \in {"None", "undecodable", "error"}}
        \cup {[kind |-> "roles", roles |-> r] : r \in 1..MaxRoleSets}

\* __check_response: None for None, ResponseException for an undecodable body
\* and for a non-zero code, the data otherwise
CheckResponse(resp) ==
    [raises |-> resp.kind \in {"undecodable", "error"}, data |-> resp.roles]

\* line 134-136: the recorded fetch of guild g is less than 10 seconds old
Recorded(g) == g \in DOMAIN cache_create_time /\ now - cache_create_time[g] < TTL

\* record_role_list(g) up to its await (lines 134-138), called by
\* package_message for a message of guild g
RecordRoleList(c, g) ==
    /\ calls[c].pc = "idle"
    /\ calls' = IF Recorded(g) THEN calls
                ELSE [calls EXCEPT ![c] = [pc |-> "get", guild |-> g]]
    /\ UNCHANGED <<cache_create_time, guild_role, now>>

\* the request of call c is answered with resp (lines 138-149); when
\* __check_response raises, the exception leaves record_role_list at line 138
GetRequestDone(c, resp) ==
    /\ calls[c].pc = "get"
    /\ LET g == calls[c].guild
           res == CheckResponse(resp)
       IN /\ calls' = [calls EXCEPT ![c] = IdleCall]
          /\ IF res.raises
             THEN UNCHANGED <<cache_create_time, guild_role>>
             ELSE /\ guild_role' = IF res.data # None
                                   THEN DictSet(guild_role, g, res.data)
                                   ELSE DictDel(guild_role, g)
                  /\ cache_create_time' = DictSet(cache_create_time, g, now)
    /\ UNCHANGED now

\* one second passes
TimePasses ==
    /\ now < MaxNow
    /\ now' = now + 1
    /\ UNCHANGED <<cache_create_time, guild_role, calls>>

NextRoles ==
    \/ \E c \in Calls, g \in Guilds : RecordRoleList(c, g) /\ UNCHANGED off_roles
    \/ \E c \in Calls, resp \in Responses : GetRequestDone(c, resp) /\ UNCHANGED off_roles
    \/ TimePasses /\ UNCHANGED off_roles

SpecRoles == Init /\ [][NextRoles]_all_vars

\* ================================================== the handler registries
\* A function, keyword or config registered by the application is its serial
\* number.  The five list fields of a factory are never shared between two
\* factories, so they are held by value; the lists inside event_handlers and
\* exception_handlers can be shared (line 200), so the dicts hold references
\* into lists.
Sequences5 ==
    {"prefix_keywords", "message_handlers", "after_reply_handlers",
     "before_reply_handlers", "message_handler_middleware"}
Dicts2 == {"event_handlers", "exception_handlers"}

\* the list that factory f holds for key k of dict d, <<>> if it has none
ListOf(fac, heap, f, d, k) ==
    IF k \in DOMAIN fac[f][d] THEN heap[fac[f][d][k]] ELSE <<>>

\* the content of factory f, its dicts with the lists they refer to
View(fac, heap, f) ==
    [fac[f] EXCEPT
        !.event_handlers = [k \in DOMAIN @ |-> heap[@[k]]],
        !.exception_handlers = [k \in DOMAIN @ |-> heap[@[k]]]]

Count(x, seq) == Cardinality({i \in DOMAIN seq : seq[i] = x})

\* MessageHandlerItem(func, ...): a descriptor with no predicate set
MessageHandlerItem(func) == [func |-> func, keywords |-> None, custom_verify |-> None]

\* lines 55-58
SetPredicate(h, keywords, verify) ==
    IF verify # None THEN [h EXCEPT !.custom_verify = verify]
    ELSE [h EXCEPT !.keywords = keywords]

\* on_message(keywords=..., verify=...)(func), func the next function
OnMessage(f, keywords, verify) ==
    /\ nreg < MaxRegs
    /\ nreg' = nreg + 1
    /\ factory' = [factory EXCEPT ![f].message_handlers =
            Append(@, SetPredicate(MessageHandlerItem(nreg + 1), keywords, verify))]
    /\ UNCHANGED <<lists, ncombine, targeted>>

\* before_bot_reply, after_bot_reply, handler_middleware, and the application
\* adding a keyword to prefix_keywords: one append to the list field
AppendTo(f, field) ==
    /\ nreg < MaxRegs
    /\ nreg' = nreg + 1
    /\ factory' = [factory EXCEPT ![f][field] = Append(@, nreg + 1)]
    /\ UNCHANGED <<lists, ncombine, targeted>>

\* set_group_config(config), config.group_id = k
SetGroupConfig(f, k) ==
    /\ nreg < MaxRegs
    /\ nreg' = nreg + 1
    /\ factory' = [factory EXCEPT ![f].group_config = DictSet(@, k, nreg + 1)]
    /\ UNCHANGED <<lists, ncombine, targeted>>

\* lines 77-81 and 98-102: func is appended to the list of every item of
\* events, a new list being made for an item that has none.  The result is
\* the dict and the list objects.
RECURSIVE RegisterAll(_, _, _, _)
RegisterAll(dict, heap, events, func) ==
    IF events = <<>> THEN [dict |-> dict, heap |-> heap]
    ELSE LET item == Head(events)
             made == item \notin DOMAIN dict
             dict1 == IF made THEN DictSet(dict, item, Len(heap) + 1) ELSE dict
             heap1 == IF made THEN Append(heap, <<>>) ELSE heap
             heap2 == [heap1 EXCEPT ![dict1[item]] = Append(@, func)]
         IN RegisterAll(dict1, heap2, Tail(events), func)

\* the events argument of on_event, the exceptions argument of on_exception:
\* one key, or a list of keys
KeyArgs == {<<k>> : k \in Keys} \cup {e \in Keys \X Keys : e[1] # e[2]}

\* on_event(events)(func) for d = event_handlers, on_exception(exceptions)(func)
\* for d = exception_handlers
OnDict(f, d, events) ==
    /\ nreg < MaxRegs
    /\ nreg' = nreg + 1
    /\ LET r == RegisterAll(factory[f][d], lists, events, nreg + 1)
       IN /\ factory' = [factory EXCEPT ![f][d] = r.dict]
          /\ lists' = r.heap
    /\ UNCHANGED <<ncombine, targeted>>

OnEvent(f, events) == OnDict(f, "event_handlers", events)
OnException(f, exceptions) == OnDict(f, "exception_handlers", exceptions)

\* line 191: dict.update
DictUpdate_KeepOwn(d, other) ==
    [k \in DOMAIN d \cup DOMAIN other |-> IF k \in DOMAIN d THEN d[k] ELSE other[k]]

DictUpdate(d, other) ==
    [k \in DOMAIN d \cup DOMAIN other |-> IF k \in DOMAIN other THEN other[k] ELSE d[k]]

\* lines 197-202 for one dict: target's dict afterwards.  A key of parent that
\* target lacks is given parent's list object itself (line 200).
CombineDict_Assign(tdict, pdict) ==
    [k \in DOMAIN tdict \cup DOMAIN pdict |->
        IF k \in DOMAIN pdict THEN pdict[k] ELSE tdict[k]]

CombineDict(tdict, pdict) ==
    [k \in DOMAIN tdict \cup DOMAIN pdict |->
        IF k \in DOMAIN tdict THEN tdict[k] ELSE pdict[k]]

\* line 202: target's list for a key both have is extended in place by parent's
\* list.  Two different keys never refer to one list object, so the list ref
\* is extended for at most one key, by parent's list as it was before the call.
CombineLists(heap, t, p) ==
    [ref \in DOMAIN heap |->
        IF \E d \in Dicts2 : \E k \in DOMAIN factory[t][d] \cap DOMAIN factory[p][d] :
               factory[t][d][k] = ref
        THEN LET d == CHOOSE d \in Dicts2 :
                          \E k \in DOMAIN factory[t][d] \cap DOMAIN factory[p][d] :
                              factory[t][d][k] = ref
                 k == CHOOSE k \in DOMAIN factory[t][d] \cap DOMAIN factory[p][d] :
                          factory[t][d][k] = ref
             IN heap[ref] \o heap[factory[p][d][k]]
        ELSE heap[ref]]

\* combine_factory(target, parent)
CombineFactory(t, p) ==
    /\ ncombine < MaxCombines
    /\ ncombine' = ncombine + 1
    /\ targeted' = targeted \cup {t}
    /\ factory' = [factory EXCEPT ![t] =
          [prefix_keywords |-> @.prefix_keywords \o factory[p].prefix_keywords,
           message_handlers |-> @.message_handlers \o factory[p].message_handlers,
           after_reply_handlers |-> @.after_reply_handlers \o factory[p].after_reply_handlers,
           before_reply_handlers |-> @.before_reply_handlers \o factory[p].before_reply_handlers,
           message_handler_middleware |->
               @.message_handler_middleware \o factory[p].message_handler_middleware,
           group_config |-> DictUpdate(@.group_config, factory[p].group_config),
           event_handlers |-> CombineDict(@.event_handlers, factory[p].event_handlers),
           exception_handlers |->
               CombineDict(@.exception_handlers, factory[p].exception_handlers)]]
    /\ lists' = CombineLists(lists, t, p)
    /\ UNCHANGED nreg

NextFactory ==
    \/ \E f \in Factories, keywords \in {None, 1}, verify \in {None, 1} :
          OnMessage(f, keywords, verify) /\ UNCHANGED off_factory
    \/ \E f \in Factories, field \in Sequences5 \ {"message_handlers"} :
          AppendTo(f, field) /\ UNCHANGED off_factory
    \/ \E f \in Factories, k \in Keys : SetGroupConfig(f, k) /\ UNCHANGED off_factory
    \/ \E f \in Factories, events \in KeyArgs : OnEvent(f, events) /\ UNCHANGED off_factory
    \/ \E f \in Factories, exceptions \in KeyArgs :
          OnException(f, exceptions) /\ UNCHANGED off_factory
    \/ \E t \in Factories, p \in Factories : CombineFactory(t, p) /\ UNCHANGED off_factory

SpecFactory == Init /\ [][NextFactory]_all_vars

\* ================================================ package_tencent_message
\* The function keeps no state between two calls, and its local data is not
\* shared with another task: its result is a function of its arguments and
\* of what the platform answers to get_channel and get_message.  A message
\* that quotes a message that quotes a message ... is a chain: chain[1] is
\* message, chain[i + 1] the message that chain[i] refers to.  Only the last
\* message of the chain has no message_reference.  Every message carries the
\* answers of the platform that concern it:
\*   channel_ok   get_channel(its channel_id) returns a channel,
\*   fetchable    get_message(..., its id) returns it.
\* Of the Message built, the image list is modelled (lines 31-33, 63); the
\* text, mention and role fields (lines 27-29, 35-56) are not.
Attachments == UNION {[1..n -> 1..MaxUrls] : n \in 0..MaxAttachments}
Messages ==
    [bot : BOOLEAN, direct_message : BOOLEAN, attachments : Attachments,
     channel_ok : BOOLEAN, fetchable : BOOLEAN]
Chains == UNION {[1..n -> Messages] : n \in 1..(MaxQuoteDepth + 1)}
message_created == {"MESSAGE_CREATE", "AT_MESSAGE_CREATE", "DIRECT_MESSAGE_CREATE"}
Events == {"MESSAGE_CREATE", "GUILD_MEMBER_ADD"}

\* line 14
Suppressed_AnyPass(m, is_reference) == m.bot

Suppressed(m, is_reference) == m.bot /\ ~is_reference

\* lines 31-33
OwnImages(m) == [i \in DOMAIN m.attachments |-> <<"http://", m.attachments[i]>>]

\* lines 13-67; calls counts the invocations of the function, this one included
RECURSIVE PackageTencentMessage(_, _, _)
PackageTencentMessage(event, chain, is_reference) ==
    LET message == Head(chain)
        none == [kind |-> "None", image |-> <<>>, calls |-> 1]
    IN IF event \notin message_created
       THEN [kind |-> "Event", image |-> <<>>, calls |-> 1]
       ELSE IF Suppressed(message, is_reference) THEN none
       ELSE IF ~message.direct_message /\ ~message.channel_ok THEN none
       ELSE LET has_reference == Len(chain) > 1
                reference == has_reference /\ chain[2].fetchable
                reference_data ==
                    IF reference THEN PackageTencentMessage(event, Tail(chain), TRUE)
                    ELSE [kind |-> "None", image |-> <<>>, calls |-> 0]
            IN [kind |-> "Message",
                image |-> IF reference_data.kind = "Message"
                          THEN OwnImages(message) \o reference_data.image
                          ELSE OwnImages(message),
                calls |-> 1 + reference_data.calls]

\* the adapter packages a message event
Package(event, chain, is_reference) ==
    /\ packaged' = [event |-> event, chain |-> chain, is_reference |-> is_reference,
                    result |-> PackageTencentMessage(event, chain, is_reference)]

\* one call is followed
NextPackage ==
    /\ packaged = NotPackaged
    /\ \E event \in Events, chain \in Chains, is_reference \in BOOLEAN :
          Package(event, chain, is_reference) /\ UNCHANGED off_package

SpecPackage == Init /\ [][NextPackage]_all_vars

\* =================================================================== claims
\* the step that ends the processing of frame f: it reaches the loop condition
\* of line 64 or raises
Processed(f) ==
    \/ MainRecv(f) /\ main'.pc # "close5"
    \/ MainClose5 /\ payload = f

\* C1, as stated: after a frame with a non-null sn has been processed, of
\* whatever opcode, last_sn equals that frame's sn.
C1_AnyOpcode ==
    [][\A f \in Frames : f.sn # NoSn /\ Processed(f) => last_sn' = f.sn]_vars

\* C1, amended: after a frame with a non-null sn that does not invalidate the
\* session (opcode 0, 3 or 6, or a hello with code 0) has been processed,
\* last_sn equals that frame's sn, be it smaller than the stored one; after a
\* hello with a non-zero code, last_sn is 0.
C1_LastWriteWins ==
    [][\A f \in Frames : f.sn # NoSn /\ f.s # 5 /\ Processed(f) =>
          last_sn' = IF Rejected(f) THEN 0 ELSE f.sn]_vars

\* C1, witness: a frame has lowered the stored sequence, and the read loop
\* goes on
C1_Lowered ==
    /\ main.pc = "recv"
    /\ end_sn = MaxSn
    /\ last_sn < end_sn
    /\ nsock = MaxSockets
    /\ sock[main.ws] = "open"

\* a heartbeat is sent (line 115): the task of its watchdog is created with it
\* (line 117)
BeatSent == \E j \in WdIds : wd[j].pc = "none" /\ wd'[j].pc = "start"

\* C2, as stated: once a heartbeat has been without an ack for longer than
\* the watchdog window, the watchdog has closed the socket: no socket is open
\* (and the connect loop, unless close() was called, is on its way to the next
\* attempt), whatever beats and acks came before.
C2_TimeoutCloses ==
    beat > WatchdogWindow => \A s \in SockIds : sock[s] # "open"

\* C3, as stated: the connect loop has ended (by its condition or by an
\* exception) only if close() has been called.
C3_LoopEndsOnlyOnClose ==
    main.pc \in {"done", "raised"} => ~keep_run

\* C4, as stated: once close() has been called, no new connection attempt is
\* started (the connect task does not go on to connect a websocket).
C4_NoAttemptAfterClose ==
    [][~keep_run /\ main'.pc = "opening" => main.pc = "opening"]_vars

C6_ReconnectInvalidates ==
    [][\A f \in Frames : f.s = 5 /\ Processed(f) =>
          /\ ws_url' = ""
          /\ last_sn' = 0
          /\ sock'[main.ws] # "open"
          /\ main'.pc = "exit"]_vars

\* C7: a hello with a non-zero code clears the cached url and the stored
\* sequence, sends no resume request, starts no heartbeat task and ends the
\* read loop with the socket closing; the url and the sequence stay cleared
\* until the connect loop, after a sleep of Backoff seconds, fetches the
\* gateway url again (or ends, if close() was called meanwhile).
C7_RejectedHello ==
    [][/\ \A f \in Frames : MainRecv(f) /\ Rejected(f) =>
              /\ ws_url' = "" /\ last_sn' = 0
              /\ resume' = resume /\ hb' = hb
              /\ sock'[main.ws] # "open"
              /\ main'.pc = "exit" /\ main'.exc = "ManualCloseException"
       /\ main.exc = "ManualCloseException" /\ main.pc = "exit" =>
              /\ ws_url' = "" /\ last_sn' = 0
              /\ main' # main =>
                    /\ sock[main.ws] = "closed"
                    /\ main'.pc = "sleep" /\ main'.t = Backoff
                    /\ main'.exc = "ManualCloseException"
       /\ main.exc = "ManualCloseException" /\ main.pc = "sleep" =>
              /\ ws_url' = "" /\ last_sn' = 0 /\ nsock' = nsock
              /\ main' # main =>
                    \/ main'.pc = "sleep" /\ main'.t = main.t - 1 /\ main.t > 0
                    \/ main.t = 0 /\ main'.pc = IF keep_run THEN "gateway" ELSE "done"
      ]_vars

\* C7, witness: the backoff after a rejected hello is over and the gateway url
\* is about to be fetched again
C7_RetryDue ==
    /\ main.pc = "sleep" /\ main.t = 0
    /\ main.exc = "ManualCloseException"
    /\ keep_run
    /\ end_sn = 0

C9_AckPendingTransitions ==
    [][/\ pong = 1 /\ pong' = 0 =>
              BeatSent \/ \E j \in WdIds : wd[j].pc = "start" /\ wd'[j].pc = "none"
       /\ pong = 0 /\ pong' = 1 => \E f \in Frames : f.s = 3 /\ MainRecv(f)
      ]_vars

\* C10: reading an opcode-0 frame creates exactly one handler task, with the
\* payload of the frame, stores the sn of the frame and goes on to the loop
\* condition without waiting; no other step creates a handler task; a handler
\* task that ends, by returning or raising, changes nothing else; and while a
\* handler task is running, the read loop of an open websocket can read an
\* ack, a numbered frame, a hello.
C10_DispatchSpawnsOne ==
    [][/\ \A f \in Frames : f.s = 0 /\ MainRecv(f) =>
              /\ handler_tasks' = Append(handler_tasks, f.d)
              /\ last_sn' = IF f.sn # NoSn THEN f.sn ELSE last_sn
              /\ main'.pc = IF keep_run THEN "recv" ELSE "exit"
       /\ Len(handler_tasks') > Len(handler_tasks) =>
              \E f \in Frames : f.s = 0 /\ MainRecv(f)
       /\ Len(handler_tasks') < Len(handler_tasks) =>
              UNCHANGED <<keep_run, ws_url, connection, pong, last_sn, payload, main,
                          hb, wd, closer, sock, nsock, resume, end_sn, closing_t, beat>>
       /\ handler_tasks # <<>> /\ main.pc = "recv" /\ sock[main.ws] = "open" =>
              \A f \in Frames : f.s \in {3, 5, 6} \/ Rejected(f) => ENABLED MainRecv(f)
      ]_vars

\* C10, witness: a handler task is still running while the read loop, having
\* read an ack since, waits for the next frame
C10_HandlerRunning ==
    /\ handler_tasks # <<>>
    /\ main.pc = "recv"
    /\ sock[main.ws] = "open"
    /\ pong = 1
    /\ \E j \in WdIds : wd[j].pc = "sleep"

\* the step in which call c issues the role-list request of guild g
Issued(c, g) == calls[c].pc = "idle" /\ calls'[c] = [pc |-> "get", guild |-> g]

\* C11: record_role_list issues the role-list request of a guild only when no
\* fetch of that guild was recorded within the last 10 seconds, and then only
\* one: no other request for the guild is in flight when it is issued
C11_OneFetchPerExpiry ==
    [][\A c \in Calls, g \in Guilds :
          Issued(c, g) =>
              /\ ~Recorded(g)
              /\ \A c2 \in Calls \ {c} : calls[c2] # [pc |-> "get", guild |-> g]
      ]_role_vars

\* C12: when the role-list request of guild g ends with anything but a role
\* list, guild_role has no entry for g afterwards, and the entries of the
\* other guilds are what they were
C12_FailedRefetchClears ==
    [][\A c \in Calls, resp \in Responses :
          resp.kind # "roles" /\ GetRequestDone(c, resp) =>
              LET g == calls[c].guild
              IN /\ g \notin DOMAIN guild_role'
                 /\ \A h \in Guilds \ {g} :
                       /\ h \in DOMAIN guild_role' <=> h \in DOMAIN guild_role
                       /\ h \in DOMAIN guild_role => guild_role'[h] = guild_role[h]
      ]_role_vars

\* C13: combine_factory(t, p) drops and overwrites no entry of event_handlers
\* and exception_handlers: for every key, target's list afterwards is target's
\* list as it was before the call followed by parent's list as it was before
\* the call (a missing list counting as empty), so its length is the sum of
\* the two lengths
C13_NoEntryLost ==
    [][\A t \in Factories, p \in Factories :
          CombineFactory(t, p) =>
              \A d \in Dicts2, k \in Keys :
                  ListOf(factory', lists', t, d, k) =
                      ListOf(factory, lists, t, d, k) \o ListOf(factory, lists, p, d, k)
      ]_all_vars

\* C13, witness: after one combine_factory call, target's list for a key that
\* both had holds target's function and then parent's
C13_Merged ==
    \E t \in Factories, p \in Factories, d \in Dicts2, k \in Keys :
        /\ t # p /\ ncombine = 1 /\ targeted = {t}
        /\ k \in DOMAIN factory[t][d] /\ k \in DOMAIN factory[p][d]
        /\ Len(lists[factory[p][d][k]]) = 1
        /\ Len(lists[factory[t][d][k]]) = 2
        /\ lists[factory[t][d][k]][2] = lists[factory[p][d][k]][1]

\* C14: after combine_factory(t, p) each of the five list fields of target is
\* its previous content followed by parent's, and target's group configs are
\* its previous ones and parent's, with parent's config for a group id that
\* both have
C14_SequencesAppended ==
    [][\A t \in Factories, p \in Factories :
          CombineFactory(t, p) =>
              /\ \A field \in Sequences5 :
                    factory'[t][field] = factory[t][field] \o factory[p][field]
              /\ LET old == factory[t].group_config
                     src == factory[p].group_config
                     new == factory'[t].group_config
                 IN /\ DOMAIN new = DOMAIN old \cup DOMAIN src
                    /\ \A k \in DOMAIN new :
                          new[k] = IF k \in DOMAIN src THEN src[k] ELSE old[k]
      ]_all_vars

\* C14, witness: parent registered config 1 and target config 2 for the same
\* group id, and after one combine_factory call target holds parent's
C14_ConfigCollision ==
    \E t \in Factories, p \in Factories, k \in Keys :
        /\ t # p /\ ncombine = 1 /\ targeted = {t} /\ nreg = 2 /\ lists = <<>>
        /\ \A f \in Factories, field \in Sequences5 : factory[f][field] = <<>>
        /\ DOMAIN factory[t].group_config = {k}
        /\ DOMAIN factory[p].group_config = {k}
        /\ factory[t].group_config[k] = 1
        /\ factory[p].group_config[k] = 1

\* C15: a combine_factory(t, p) call whose parent was never a target itself
\* adds exactly one copy of every entry of parent to the corresponding list of
\* target, in the five list fields and in the lists of the two dicts, however
\* often parent was combined into target before
C15_OneMoreCopy ==
    [][\A t \in Factories, p \in Factories :
          t # p /\ p \notin targeted /\ CombineFactory(t, p) =>
              /\ \A field \in Sequences5 :
                    \A i \in DOMAIN factory[p][field] :
                        LET x == factory[p][field][i]
                        IN Count(x, factory'[t][field]) = Count(x, factory[t][field]) + 1
              /\ \A d \in Dicts2, k \in Keys :
                    \A i \in DOMAIN ListOf(factory, lists, p, d, k) :
                        LET x == ListOf(factory, lists, p, d, k)[i]
                        IN Count(x, ListOf(factory', lists', t, d, k)) =
                               Count(x, ListOf(factory, lists, t, d, k)) + 1
      ]_all_vars

\* message i of the chain, once the function is invoked for it, does not
\* return None: it is not a bot's message outside a reference pass, and it is
\* direct or its channel resolves
Passes(chain, i, is_reference) ==
    /\ ~(chain[i].bot /\ ~(i > 1 \/ is_reference))
    /\ chain[i].direct_message \/ chain[i].channel_ok

\* the function is invoked for message i of the chain: every message before it
\* was packaged and the platform returned the message it refers to
Reached(chain, i, is_reference) ==
    \A j \in 1..(i - 1) : Passes(chain, j, is_reference) /\ chain[j + 1].fetchable

\* the images of the messages from i on that were reached and packaged, in the
\* order of the chain
RECURSIVE MergedImages(_, _, _)
MergedImages(chain, i, is_reference) ==
    IF i > Len(chain) THEN <<>>
    ELSE (IF Reached(chain, i, is_reference) /\ Passes(chain, i, is_reference)
          THEN OwnImages(chain[i]) ELSE <<>>)
             \o MergedImages(chain, i + 1, is_reference)

\* one invocation for every quote depth reached, and the images of a quoted
\* message after those of the message that quotes it
QuotesResolved ==
    packaged.event \in message_created =>
        /\ packaged.result.calls =
               Cardinality({i \in DOMAIN packaged.chain :
                               Reached(packaged.chain, i, packaged.is_reference)})
        /\ packaged.result.kind = "Message" =>
               packaged.result.image =
                   MergedImages(packaged.chain, 1, packaged.is_reference)

\* C16: package_tencent_message is invoked once for every quote depth it
\* reaches, the images of a quoted message follow those of the message that
\* quotes it, and for a message written by a bot the result is None exactly
\* when the call is not a reference pass
C16_BotSuppressedOnlyAtTop ==
    /\ QuotesResolved
    /\ packaged.event \in message_created /\ packaged.chain[1].bot =>
           (packaged.result.kind = "None" <=> ~packaged.is_reference)

\* C16, as the code has it: the same, for a bot's message that is direct or
\* whose channel resolves; a message of a channel that does not resolve is
\* not packaged, in a reference pass either (lines 22-25)
C16_QuoteResolution ==
    /\ QuotesResolved
    /\ (/\ packaged.event \in message_created
        /\ packaged.chain[1].bot
        /\ packaged.chain[1].direct_message \/ packaged.chain[1].channel_ok) =>
           (packaged.result.kind = "None" <=> ~packaged.is_reference)
    /\ (/\ packaged.event \in message_created
        /\ ~packaged.chain[1].direct_message
        /\ ~packaged.chain[1].channel_ok) => packaged.result.kind = "None"

\* C16, witness: a message that quotes a bot's message that quotes a third
\* one was packaged with three invocations and holds the three images in the
\* order of the chain
C16_TwoQuotesMerged ==
    /\ packaged.result.kind = "Message"
    /\ Len(packaged.chain) = 3
    /\ packaged.chain[2].bot
    /\ packaged.result.calls = 3
    /\ packaged.result.image =
           OwnImages(packaged.chain[1]) \o OwnImages(packaged.chain[2])
               \o OwnImages(packaged.chain[3])
    /\ \A i \in 1..3 : Len(packaged.chain[i].attachments) = 1
    /\ packaged.chain[1].attachments # packaged.chain[2].attachments

\* C17: every descriptor in message_handlers has a keyword set or a custom
\* verify function, and not both
C17_OnePredicate ==
    \A f \in Factories :
        \A i \in DOMAIN factory[f].message_handlers :
            LET h == factory[f].message_handlers[i]
            IN (h.keywords # None) # (h.custom_verify # None)

\* C18: when heartbeat_interval reaches the send of line 115 after its sleep,
\* the connection is there and open
C18_SendOnOpenSocket ==
    [][\A i \in HbIds :
          hb[i].sec + 1 >= HeartbeatInterval /\ HbWake(i) => CanSend
      ]_vars

\* C19: a combine_factory call into t and an on_event or on_exception
\* registration on t leave the content of every other factory as it was
C19_SourceUnchanged ==
    [][\A t \in Factories :
          (\/ \E p \in Factories : CombineFactory(t, p)
           \/ \E events \in KeyArgs : OnEvent(t, events) \/ OnException(t, events)) =>
              \A u \in Factories \ {t} :
                  View(factory', lists', u) = View(factory, lists, u)
      ]_all_vars

\* C20: at most one heartbeat_interval task is running
C20_OneSender == Cardinality({i \in HbIds : hb[i].pc # "none"}) <= 1

====
